---- MODULE Spec2Model ----
(***************************************************************************)
(* Frogger (src/main.rs): the game loop of main, the Frog moves, the       *)
(* obstacle step, collision detection and handling, and the terminal       *)
(* cleanup guard.                                                          *)
(***************************************************************************)
EXTENDS Integers, Sequences, FiniteSets, TLC

\* ---------------------------------------------------------------- constants
WIDTH == 20
HEIGHT == 10
MAX_LIVES == 3
NUM_OBSTACLES == 5

\* ------------------------------------------------------------------- bounds
\* Seeds of the random generator explored: generate_obstacles runs once per seed.
MaxSeed == 3
\* Collisions handled in one run (lives is a u8: 3, 2, 1, 0, then 255 ...).
MaxHits == 4

\* ------------------------------------------------------------ integer types
U8 == 256
U16 == 65536

\* `v as u16` of an i32 value: the low 16 bits.
as_u16(v) == v % U16

\* Rust's `%` on i32: the remainder has the sign of the dividend.
rem(a, n) == IF a >= 0 THEN a % n ELSE 0 - ((0 - a) % n)

\* i32::rem_euclid: the remainder made non-negative.
rem_euclid(a, n) == LET r == rem(a, n) IN IF r < 0 THEN r + n ELSE r

\* u8 subtraction as the release build computes it (two's complement wrap).
wrapping_sub(a, b) == (a - b + U8) % U8

\* ------------------------------------------------------------------- Frog
Frog(x, y, lives) == [x |-> x, y |-> y, lives |-> lives]

move_up(f) == IF f.y > 0 THEN [f EXCEPT !.y = f.y - 1] ELSE f

move_down(f) == IF f.y < HEIGHT - 1 THEN [f EXCEPT !.y = f.y + 1] ELSE f

\* Mutant of move_left: the edge test dropped, the u16 subtraction wrapping.
move_left_unchecked(f) == [f EXCEPT !.x = as_u16(f.x - 1)]

move_left(f) == IF f.x > 0 THEN [f EXCEPT !.x = f.x - 1] ELSE f

move_right(f) == IF f.x < WIDTH - 1 THEN [f EXCEPT !.x = f.x + 1] ELSE f

\* --------------------------------------------------------------- Obstacle
Obstacle(x, y, width, height, speed) ==
    [x |-> x, y |-> y, width |-> width, height |-> height, speed |-> speed]

\* Mutant of obstacle_move: `%` in place of rem_euclid.
obstacle_move_rem(o) == [o EXCEPT !.x = as_u16(rem(o.x + o.speed, WIDTH))]

\* Obstacle::move (r#move in the source).
obstacle_move(o) == [o EXCEPT !.x = as_u16(rem_euclid(o.x + o.speed, WIDTH))]

\* Mutant of move_obstacles: an obstacle that would leave the grid is removed.
move_obstacles_retain(obs) ==
    LET inside(o) == o.x + o.speed >= 0 /\ o.x + o.speed < WIDTH
        kept == SelectSeq(obs, inside)
    IN [i \in DOMAIN kept |-> obstacle_move(kept[i])]

\* The `for obstacle in &mut obstacles` loop of main.
move_obstacles(obs) == [i \in DOMAIN obs |-> obstacle_move(obs[i])]

\* ------------------------------------------------------- random generation
\* thread_rng() as a seeded stream: the next state of the generator.
rng_next(s) == (49 * s + 8) % 251

\* Mutant of gen_range: the upper bound taken as inclusive (lo..=hi).
gen_range_closed(s, lo, hi) == lo + (s % (hi - lo + 1))

\* gen_range(lo..hi) and gen_range(lo..=hi) of the draw s.
gen_range(s, lo, hi) == lo + (s % (hi - lo))

gen_range_inclusive(s, lo, hi) == lo + (s % (hi - lo + 1))

RECURSIVE gen_loop(_, _, _)
gen_loop(i, s, acc) ==
    IF i = NUM_OBSTACLES THEN acc
    ELSE LET s1 == rng_next(s)
             s2 == rng_next(s1)
             s3 == rng_next(s2)
             s4 == rng_next(s3)
             x == gen_range(s1, 0, WIDTH)
             y == gen_range(s2, 1, HEIGHT - 1)
             width == gen_range(s3, 1, 4)
             height == 1
             speed == gen_range_inclusive(s4, -2, 2)
         IN gen_loop(i + 1, s4, Append(acc, Obstacle(x, y, width, height, speed)))

generate_obstacles(sd) == gen_loop(0, sd, <<>>)

\* -------------------------------------------------------------- collisions
\* Mutant of check_collision: the obstacle's extent wrapped round the grid edge.
check_collision_wrapped(f, obs) ==
    \E i \in DOMAIN obs :
        /\ (f.x - obs[i].x) % WIDTH < obs[i].width
        /\ f.y >= obs[i].y
        /\ f.y < obs[i].y + obs[i].height

\* Mutant of check_collision: `<=` in the test of the lower edge.
check_collision_y_inclusive(f, obs) ==
    \E i \in DOMAIN obs :
        /\ f.x >= obs[i].x
        /\ f.x < obs[i].x + obs[i].width
        /\ f.y >= obs[i].y
        /\ f.y <= obs[i].y + obs[i].height

check_collision(f, obs) ==
    \E i \in DOMAIN obs :
        /\ f.x >= obs[i].x
        /\ f.x < obs[i].x + obs[i].width
        /\ f.y >= obs[i].y
        /\ f.y < obs[i].y + obs[i].height

\* Mutant of handle_collision: the reset placed outside the `if`.
handle_collision_reset_always(f, obs) ==
    Frog(WIDTH \div 2, HEIGHT - 1,
         IF check_collision(f, obs) THEN wrapping_sub(f.lives, 1) ELSE f.lives)

\* Mutant of handle_collision: the life taken, the reset missing.
handle_collision_no_reset(f, obs) ==
    IF check_collision(f, obs)
    THEN [f EXCEPT !.lives = wrapping_sub(f.lives, 1)]
    ELSE f

\* handle_collision when `frog.lives -= 1` does not panic.
handle_collision(f, obs) ==
    IF check_collision(f, obs)
    THEN Frog(WIDTH \div 2, HEIGHT - 1, wrapping_sub(f.lives, 1))
    ELSE f

\* `frog.lives -= 1` overflows: a panic with overflow checks, a wrap without.
lives_overflow(f, obs) == check_collision(f, obs) /\ f.lives = 0

\* ------------------------------------------------------------------ input
MoveUpKeys == {"w", "Up"}
MoveDownKeys == {"s", "Down"}
MoveLeftKeys == {"a", "Left"}
MoveRightKeys == {"d", "Right"}
MoveKeys == MoveUpKeys \cup MoveDownKeys \cup MoveLeftKeys \cup MoveRightKeys

\* What read() can return: a key event with one of the codes matched, another
\* key code, an event that is no key event, or an error.
Events == MoveKeys \cup {"q", "other_key", "not_key", "read_err"}

\* The events that reach no arm but `_ => {}`, or fail the `if let`.
IgnoredEvents == {"other_key", "not_key", "read_err"}

\* Mutant of match_code: the arms of the up and down keys exchanged.
match_code_swapped(f, code) ==
    IF code \in MoveUpKeys THEN move_down(f)
    ELSE IF code \in MoveDownKeys THEN move_up(f)
    ELSE IF code \in MoveLeftKeys THEN move_left(f)
    ELSE IF code \in MoveRightKeys THEN move_right(f)
    ELSE f

\* Mutant of match_code: the arms match the arrow keys only.
match_code_arrows_only(f, code) ==
    IF code = "Up" THEN move_up(f)
    ELSE IF code = "Down" THEN move_down(f)
    ELSE IF code = "Left" THEN move_left(f)
    ELSE IF code = "Right" THEN move_right(f)
    ELSE f

\* The match on the key code, lines 211-218 (the 'q' arm breaks, see Quit).
match_code(f, code) ==
    IF code \in MoveUpKeys THEN move_up(f)
    ELSE IF code \in MoveDownKeys THEN move_down(f)
    ELSE IF code \in MoveLeftKeys THEN move_left(f)
    ELSE IF code \in MoveRightKeys THEN move_right(f)
    ELSE f

\* ------------------------------------------------------------------ state
VARIABLES
    frog,       \* the Frog of main
    obstacles,  \* the Vec<Obstacle> of main
    pc,         \* where main is
    ev,         \* the event read in this tick and the position it was read at
    matched,    \* how many events were read, while they are Scenario's; else -1
    exit,       \* how main was left
    restore,    \* TerminalCleanup::drop: "no", or the outcome of its command
    seed,       \* the seed generate_obstacles ran with
    idle        \* this tick's event moved nothing (ignored event), until the tick ends

vars == <<frog, obstacles, pc, ev, matched, exit, restore, seed, idle>>

NoEvent == [code |-> "none", x |-> 0, y |-> 0]

\* The injected key sequence of the end-to-end scenario.
Scenario == <<"Up", "Up", "q">>

track(code) ==
    IF matched >= 0 /\ matched < Len(Scenario) /\ Scenario[matched + 1] = code
    THEN matched + 1
    ELSE -1

Hits(f) == (MAX_LIVES - f.lives + U8) % U8

Running ==
    pc \in {"render", "render_err", "input", "erase", "erase_err", "advance", "collide"}

Init ==
    /\ seed \in 1..MaxSeed
    /\ frog = Frog(WIDTH \div 2, HEIGHT - 1, MAX_LIVES)
    /\ obstacles = generate_obstacles(seed)
    /\ pc = "startup"
    /\ ev = NoEvent
    /\ matched = 0
    /\ exit = "none"
    /\ restore = "no"
    /\ idle = FALSE

\* ---------------------------------------------------------------- actions
\* Lines 194-199: the startup clear and hide succeed.
StartupOk ==
    /\ pc = "startup"
    /\ pc' = "render"
    /\ UNCHANGED <<frog, obstacles, ev, matched, exit, restore, seed, idle>>

\* Mutant of StartupErr: the failure reported, the `return` missing.
StartupErrNoReturn ==
    /\ pc = "startup"
    /\ pc' = "render"
    /\ exit' = "startup_failed"
    /\ UNCHANGED <<frog, obstacles, ev, matched, restore, seed, idle>>

\* Lines 200-203: they fail; main reports it and returns.
StartupErr ==
    /\ pc = "startup"
    /\ pc' = "return"
    /\ exit' = "startup_failed"
    /\ UNCHANGED <<frog, obstacles, ev, matched, restore, seed, idle>>

\* Lines 207-208: draw_frog and draw_obstacles, every command succeeding.
DrawOk ==
    /\ pc = "render"
    /\ pc' = "input"
    /\ UNCHANGED <<frog, obstacles, ev, matched, exit, restore, seed, idle>>

\* Lines 207-208 with a failing command: the Err arm is taken.
DrawErr ==
    /\ pc = "render"
    /\ pc' = "render_err"
    /\ UNCHANGED <<frog, obstacles, ev, matched, exit, restore, seed, idle>>

\* The Err arms of draw_frog and Obstacle::draw: eprintln!, then go on.
DrawReport ==
    /\ pc = "render_err"
    /\ pc' = "input"
    /\ UNCHANGED <<frog, obstacles, ev, matched, exit, restore, seed, idle>>

\* Lines 210-219 for every event but the 'q' key.
Input(code) ==
    /\ pc = "input"
    /\ code # "q"
    /\ frog' = match_code(frog, code)
    /\ ev' = [code |-> code, x |-> frog.x, y |-> frog.y]
    /\ matched' = track(code)
    /\ idle' = (code \in IgnoredEvents)
    /\ pc' = "erase"
    /\ UNCHANGED <<obstacles, exit, restore, seed>>

\* Mutant of Quit: no 'q' arm, the key falls to `_ => {}`.
QuitIgnored ==
    /\ pc = "input"
    /\ ev' = [code |-> "q", x |-> frog.x, y |-> frog.y]
    /\ matched' = track("q")
    /\ idle' = TRUE
    /\ pc' = "erase"
    /\ UNCHANGED <<frog, obstacles, exit, restore, seed>>

\* Mutant of Quit: the break taken at the end of the tick, after the obstacle step.
QuitAfterStep ==
    /\ pc = "input"
    /\ ev' = [code |-> "q", x |-> frog.x, y |-> frog.y]
    /\ matched' = track("q")
    /\ obstacles' = move_obstacles(obstacles)
    /\ pc' = "return"
    /\ exit' = "quit"
    /\ UNCHANGED <<frog, restore, seed, idle>>

\* Line 216: the 'q' key breaks out of the loop.
Quit ==
    /\ pc = "input"
    /\ ev' = [code |-> "q", x |-> frog.x, y |-> frog.y]
    /\ matched' = track("q")
    /\ pc' = "return"
    /\ exit' = "quit"
    /\ UNCHANGED <<frog, obstacles, restore, seed, idle>>

\* Lines 221-222: clear_frog and clear_obstacles, every command succeeding.
EraseOk ==
    /\ pc = "erase"
    /\ pc' = "advance"
    /\ ev' = NoEvent
    /\ UNCHANGED <<frog, obstacles, matched, exit, restore, seed, idle>>

\* Lines 221-222 with a failing command.
EraseErr ==
    /\ pc = "erase"
    /\ pc' = "erase_err"
    /\ ev' = NoEvent
    /\ UNCHANGED <<frog, obstacles, matched, exit, restore, seed, idle>>

\* The Err arms of clear_frog and Obstacle::clear.
EraseReport ==
    /\ pc = "erase_err"
    /\ pc' = "advance"
    /\ UNCHANGED <<frog, obstacles, ev, matched, exit, restore, seed, idle>>

\* Lines 224-226: every obstacle moves once.
Advance ==
    /\ pc = "advance"
    /\ obstacles' = move_obstacles(obstacles)
    /\ pc' = "collide"
    /\ UNCHANGED <<frog, ev, matched, exit, restore, seed, idle>>

\* The obstacles as they were before the last obstacle step.
PreAdvance(obs) == [i \in DOMAIN obs |-> [obs[i] EXCEPT !.x = (obs[i].x - obs[i].speed) % WIDTH]]

\* Mutant of HandleCollision: the check made on the positions before the step.
HandleCollisionStale ==
    /\ pc = "collide"
    /\ check_collision(frog, PreAdvance(obstacles)) => Hits(frog) < MaxHits
    /\ frog' = handle_collision(frog, PreAdvance(obstacles))
    /\ idle' = FALSE
    /\ pc' = "render"
    /\ UNCHANGED <<obstacles, ev, matched, exit, restore, seed>>

\* Lines 228-230: handle_collision, then the sleep.
HandleCollision ==
    /\ pc = "collide"
    /\ check_collision(frog, obstacles) => Hits(frog) < MaxHits
    /\ frog' = handle_collision(frog, obstacles)
    /\ idle' = FALSE
    /\ pc' = "render"
    /\ UNCHANGED <<obstacles, ev, matched, exit, restore, seed>>

\* Mutant of OverflowPanic: the panic aborts the process, nothing is dropped.
OverflowPanicAbort ==
    /\ pc = "collide"
    /\ lives_overflow(frog, obstacles)
    /\ pc' = "exited"
    /\ exit' = "panic"
    /\ UNCHANGED <<frog, obstacles, ev, matched, restore, seed, idle>>

\* Line 158 in a build with overflow checks: `frog.lives -= 1` panics at 0.
OverflowPanic ==
    /\ pc = "collide"
    /\ lives_overflow(frog, obstacles)
    /\ pc' = "unwind"
    /\ exit' = "panic"
    /\ UNCHANGED <<frog, obstacles, ev, matched, restore, seed, idle>>

\* Lines 166-173: _cleanup is dropped when main returns or unwinds.
Drop(outcome) ==
    /\ pc \in {"return", "unwind"}
    /\ restore' = outcome
    /\ pc' = "exited"
    /\ UNCHANGED <<frog, obstacles, ev, matched, exit, seed, idle>>

Next ==
    \/ StartupOk
    \/ StartupErr
    \/ DrawOk
    \/ DrawErr
    \/ DrawReport
    \/ \E code \in Events : Input(code)
    \/ Quit
    \/ EraseOk
    \/ EraseErr
    \/ EraseReport
    \/ Advance
    \/ HandleCollision
    \/ OverflowPanic
    \/ \E outcome \in {"ok", "failed"} : Drop(outcome)

Spec == Init /\ [][Next]_vars

TypeOK ==
    /\ seed \in 1..MaxSeed
    /\ frog.lives \in 0..(U8 - 1)
    /\ Len(obstacles) = NUM_OBSTACLES
    /\ ev.code \in Events \cup {"none"}
    /\ matched \in -1..Len(Scenario)
    /\ exit \in {"none", "quit", "startup_failed", "panic"}
    /\ restore \in {"no", "ok", "failed"}
    /\ idle \in BOOLEAN
\* ------------------------------------------------------------------ claims
InGrid(f) == f.x \in 0..(WIDTH - 1) /\ f.y \in 0..(HEIGHT - 1)

\* C1: in every reachable state the player is inside the grid, 0 <= x < 20 and
\* 0 <= y < 10, and a move key read at the corresponding edge (left at x = 0,
\* right at x = 19, up at y = 0, down at y = 9) leaves the position unchanged.
C1_PlayerStaysInGrid ==
    /\ InGrid(frog)
    /\ LET atEdge == \/ ev.code \in MoveLeftKeys /\ ev.x = 0
                     \/ ev.code \in MoveRightKeys /\ ev.x = WIDTH - 1
                     \/ ev.code \in MoveUpKeys /\ ev.y = 0
                     \/ ev.code \in MoveDownKeys /\ ev.y = HEIGHT - 1
       IN atEdge => frog.x = ev.x /\ frog.y = ev.y

C1_Witness == ev.code = "Left" /\ ev.x = 0 /\ frog.x = 0 /\ frog.lives < MAX_LIVES

\* C2: lives after any step is at most lives before it: it never increases.
C2_LivesNeverIncrease == [][frog'.lives <= frog.lives]_vars

\* C3: the loop leaves the Running state only in a step that reads the 'q' key.
C3_OnlyQuitEndsLoop == [][Running /\ ~Running' => ev'.code = "q" /\ exit' = "quit"]_vars

\* C4: collision resolution with at least one obstacle over the player takes
\* exactly one life and puts the player at (10, 9); no step takes more than one.
C4_OneLifePerCollision ==
    [][/\ frog'.lives >= frog.lives - 1
       /\ pc = "collide" /\ check_collision(frog, obstacles) =>
              /\ frog'.lives = frog.lives - 1
              /\ frog'.x = 10
              /\ frog'.y = 9]_vars

\* C5 as written: once the events read are Up, Up, 'q' the loop is Terminated,
\* the player is at (10, 7), and when main has ended the restore has run.
C5_ScenarioEndsAt_10_7 ==
    matched = Len(Scenario) =>
        /\ ~Running
        /\ exit = "quit"
        /\ frog.x = 10 /\ frog.y = 7
        /\ pc = "exited" => restore # "no"
        /\ pc # "exited" => ENABLED Next

\* C5 amended: once the events read are Up, Up, 'q' the loop is Terminated and
\* the restore runs when main ends; the player is at (10, 7) when no collision
\* was detected in the two ticks (lives still 3), and otherwise at (10, 8) or
\* (10, 9) with lives 2 or 1.
C5_ScenarioAmended ==
    matched = Len(Scenario) =>
        /\ ~Running
        /\ exit = "quit"
        /\ frog.lives = MAX_LIVES => frog.x = 10 /\ frog.y = 7
        /\ frog.lives # MAX_LIVES =>
               frog.x = 10 /\ frog.y \in {8, 9} /\ frog.lives \in {1, 2}
        /\ pc = "exited" => restore # "no"
        /\ pc # "exited" => ENABLED Next

C5_Witness ==
    /\ matched = Len(Scenario)
    /\ pc = "exited"
    /\ restore = "ok"
    /\ frog = Frog(10, 7, MAX_LIVES)

\* C6: whenever the loop waits for an event the 'q' key can be read, and the
\* step that reads it leaves the loop (Terminated) with position, lives and
\* obstacles as they were, whatever they are.
C6_QuitAlwaysTerminates ==
    /\ pc = "input" => ENABLED Quit
    /\ ev.code = "q" =>
           /\ ~Running
           /\ exit = "quit"
           /\ frog.x = ev.x /\ frog.y = ev.y

\* 'q' read while the coming obstacle step would put an obstacle on the player.
C6_Witness ==
    /\ ev.code = "q"
    /\ pc = "return"
    /\ check_collision(frog, move_obstacles(obstacles))

\* C7: main is left only with the terminal restore executed, on each of its
\* ways out (quit, failed startup, panic), and nothing runs after the restore.
C7_RestoreOnEveryExit ==
    /\ exit # "none" <=> pc \in {"return", "unwind", "exited"}
    /\ pc \in {"return", "unwind"} => ENABLED Next
    /\ pc = "exited" => restore # "no" /\ ~ENABLED Next
    /\ restore # "no" => pc = "exited"

C7_Witness == pc = "exited" /\ exit = "panic" /\ restore = "ok"

\* C8: every obstacle's x is in [0, 20) before and after every step, and the
\* obstacle step sets x to (x + speed) modulo 20, the non-negative remainder.
C8_ObstacleWraps ==
    [][\A i \in 1..NUM_OBSTACLES :
          /\ obstacles[i].x \in 0..(WIDTH - 1)
          /\ obstacles'[i].x \in 0..(WIDTH - 1)
          /\ pc = "advance" =>
                 obstacles'[i].x = (obstacles[i].x + obstacles[i].speed) % WIDTH]_vars

\* An obstacle of speed -2 has just stepped from x = 0 to x = 18.
C8_Witness ==
    /\ pc = "collide"
    /\ \E i \in 1..NUM_OBSTACLES : obstacles[i].speed = -2 /\ obstacles[i].x = 18

\* C9: lives changes in no step but collision resolution, the position in no
\* step but input handling and collision resolution, and collision resolution
\* with no obstacle over the player changes neither.
C9_OnlyCollisionTakesLives ==
    [][/\ pc # "collide" => frog'.lives = frog.lives
       /\ pc \notin {"collide", "input"} => frog' = frog
       /\ pc = "collide" /\ ~check_collision(frog, obstacles) => frog' = frog]_vars

\* A tick has ended with the player where input handling left it.
C9_Witness == pc = "render" /\ frog.y = HEIGHT - 3 /\ frog.lives = MAX_LIVES

\* C10: a failed startup ends main with no event read, no obstacle moved and
\* the player as constructed; a failed draw or erase command changes neither
\* player nor obstacles and the loop goes on.
C10_StartupFailureRunsNoTick ==
    [][/\ exit' = "startup_failed" =>
              /\ ~Running'
              /\ frog' = Frog(WIDTH \div 2, HEIGHT - 1, MAX_LIVES)
              /\ obstacles' = generate_obstacles(seed')
              /\ ev' = NoEvent
              /\ matched' = 0
       /\ pc \in {"render", "render_err", "erase", "erase_err"} =>
              /\ Running'
              /\ frog' = frog
              /\ obstacles' = obstacles]_vars

C10_Witness == exit = "startup_failed" /\ pc = "exited" /\ frog.lives = MAX_LIVES
\* C11: a tick whose event is a read failure, a non-key event or an unmatched
\* key code moves nothing in input handling and stays in the loop; the tick then
\* erases, advances every obstacle once, runs the collision check and reaches
\* the next tick's render.
C11_IgnoredEventTickCompletes ==
    [][/\ pc = "input" /\ ev'.code \in IgnoredEvents => frog' = frog /\ pc' = "erase"
       /\ idle /\ pc = "erase" => pc' \in {"erase_err", "advance"}
       /\ idle /\ pc = "erase_err" => pc' = "advance"
       /\ idle /\ pc = "advance" =>
              /\ pc' = "collide"
              /\ \A i \in 1..NUM_OBSTACLES :
                     obstacles'[i].x = (obstacles[i].x + obstacles[i].speed) % WIDTH
       /\ idle /\ pc = "collide" => pc' = "render"]_vars

\* C12: the number of obstacles stays 5, every obstacle keeps its y, width,
\* height and speed, and x changes in no step but the obstacle step.
C12_ObstacleShapeFixed ==
    [][/\ Len(obstacles') = NUM_OBSTACLES
       /\ Len(obstacles) = NUM_OBSTACLES
       /\ \A i \in 1..NUM_OBSTACLES :
              /\ obstacles'[i].y = obstacles[i].y
              /\ obstacles'[i].width = obstacles[i].width
              /\ obstacles'[i].height = obstacles[i].height
              /\ obstacles'[i].speed = obstacles[i].speed
       /\ pc # "advance" => obstacles' = obstacles]_vars

\* Ticks and a collision later every x has changed, the rest is as generated.
C12_Witness ==
    /\ pc = "render"
    /\ frog.lives < MAX_LIVES
    /\ \E i \in 1..NUM_OBSTACLES : obstacles[i].x # generate_obstacles(seed)[i].x
    /\ \A i \in 1..NUM_OBSTACLES :
           [obstacles[i] EXCEPT !.x = 0] = [generate_obstacles(seed)[i] EXCEPT !.x = 0]

\* C13: a tick that does not quit runs input handling, then the obstacle step
\* (every obstacle once), then one collision check; a life is lost only when an
\* obstacle, where the step put it, covers the player, where input handling
\* put it.
C13_TickOrder ==
    [][/\ pc = "input" /\ ev'.code # "q" =>
              pc' = "erase" /\ obstacles' = obstacles /\ frog'.lives = frog.lives
       /\ pc \in {"erase", "erase_err"} =>
              pc' \in {"erase_err", "advance"} /\ frog' = frog /\ obstacles' = obstacles
       /\ pc = "advance" =>
              /\ pc' = "collide"
              /\ frog' = frog
              /\ \A i \in 1..NUM_OBSTACLES :
                     obstacles'[i].x = (obstacles[i].x + obstacles[i].speed) % WIDTH
       /\ pc = "collide" =>
              /\ pc' \in {"render", "unwind"}
              /\ obstacles' = obstacles
              /\ frog'.lives # frog.lives => check_collision(frog, obstacles)
              /\ ~check_collision(frog, obstacles) => frog' = frog /\ pc' = "render"]_vars

\* A tick has ended without a reset although an obstacle covered the player's
\* cell before the obstacle step.
C13_Witness ==
    /\ pc = "render"
    /\ frog.y # HEIGHT - 1
    /\ check_collision(frog, PreAdvance(obstacles))
\* The cells an obstacle covers: width cells to the right of x, height cells
\* down from y, none of them wrapped.
Cells(o) == {<<o.x + dx, o.y + dy>> : dx \in 0..(o.width - 1), dy \in 0..(o.height - 1)}

\* C14: the collision test is true exactly when the player's cell is one of the
\* cells of some obstacle (x <= player.x < x + width, y <= player.y < y + height),
\* and an obstacle's extent is not wrapped: it covers no cell left of its x.
C14_CollisionIffCovered ==
    /\ check_collision(frog, obstacles) <=>
           \E i \in 1..NUM_OBSTACLES : <<frog.x, frog.y>> \in Cells(obstacles[i])
    /\ \A i \in 1..NUM_OBSTACLES :
           /\ check_collision(frog, <<obstacles[i]>>) <=>
                  /\ obstacles[i].x <= frog.x
                  /\ frog.x < obstacles[i].x + obstacles[i].width
                  /\ obstacles[i].y <= frog.y
                  /\ frog.y < obstacles[i].y + obstacles[i].height
           /\ frog.x < obstacles[i].x => ~check_collision(frog, <<obstacles[i]>>)

\* A tick has ended without a reset with the player at x = 0 in the row of a
\* width-3 obstacle at x = 19.
C14_Witness ==
    /\ pc = "render"
    /\ frog.x = 0
    /\ frog.y # HEIGHT - 1
    /\ \E i \in 1..NUM_OBSTACLES :
           obstacles[i].x = WIDTH - 1 /\ obstacles[i].width = 3 /\ obstacles[i].y = frog.y

\* C15: away from the edge, up/'w' takes 1 from y, down/'s' adds 1 to y,
\* left/'a' takes 1 from x, right/'d' adds 1 to x, the other coordinate staying;
\* an arrow key and its letter have the same effect from every position.
C15_MoveKeysStepOneCell ==
    /\ ev.code \in {"Up", "w"} /\ ev.y > 0 => frog.x = ev.x /\ frog.y = ev.y - 1
    /\ ev.code \in {"Down", "s"} /\ ev.y < HEIGHT - 1 => frog.x = ev.x /\ frog.y = ev.y + 1
    /\ ev.code \in {"Left", "a"} /\ ev.x > 0 => frog.x = ev.x - 1 /\ frog.y = ev.y
    /\ ev.code \in {"Right", "d"} /\ ev.x < WIDTH - 1 => frog.x = ev.x + 1 /\ frog.y = ev.y
    /\ match_code(frog, "w") = match_code(frog, "Up")
    /\ match_code(frog, "s") = match_code(frog, "Down")
    /\ match_code(frog, "a") = match_code(frog, "Left")
    /\ match_code(frog, "d") = match_code(frog, "Right")

C15_Witness ==
    /\ ev.code = "d"
    /\ ev.x = 3 /\ ev.y = 4
    /\ frog.x = 4 /\ frog.y = 4

\* C16: there are 5 obstacles and each has y in [1, 8], width in [1, 3],
\* height 1 and speed in [-2, 2], in every reachable state.
C16_ObstacleRanges ==
    /\ Len(obstacles) = NUM_OBSTACLES
    /\ \A i \in 1..NUM_OBSTACLES :
           /\ obstacles[i].y \in 1..(HEIGHT - 2)
           /\ obstacles[i].width \in 1..3
           /\ obstacles[i].height = 1
           /\ obstacles[i].speed \in -2..2

\* After ticks and a collision, with obstacles in the rows 1 and 8, of width 3
\* and of speed 2.
C16_Witness ==
    /\ pc = "render"
    /\ frog.lives < MAX_LIVES
    /\ \E i \in 1..NUM_OBSTACLES : obstacles[i].y = 1
    /\ \E i \in 1..NUM_OBSTACLES : obstacles[i].y = HEIGHT - 2
    /\ \E i \in 1..NUM_OBSTACLES : obstacles[i].width = 3
    /\ \E i \in 1..NUM_OBSTACLES : obstacles[i].speed = 2

\* C17: the step that reads 'q' changes neither the player (position, lives) nor
\* any obstacle, and nothing changes them after it.
C17_QuitTickChangesNothing ==
    [][(ev'.code = "q" \/ exit = "quit") => frog' = frog /\ obstacles' = obstacles]_vars

\* main has ended by 'q' in a tick whose obstacle step would have put an
\* obstacle on the player.
C17_Witness ==
    /\ ev.code = "q"
    /\ pc = "exited"
    /\ frog.lives < MAX_LIVES
    /\ check_collision(frog, move_obstacles(obstacles))

\* C18: at the start of every tick (initially and after every collision
\* resolution, until the event is read) no obstacle covers the player's cell.
C18_NoOverlapAtTickStart ==
    pc \in {"startup", "render", "render_err", "input"} => ~check_collision(frog, obstacles)

\* A tick starts after a reset to (10, 9).
C18_Witness ==
    /\ pc = "render"
    /\ frog.lives < MAX_LIVES
    /\ frog.x = WIDTH \div 2 /\ frog.y = HEIGHT - 1
    /\ \E i \in 1..NUM_OBSTACLES :
           obstacles[i].y = HEIGHT - 2 /\ <<frog.x, frog.y - 1>> \in Cells(obstacles[i])

\* C19: collision resolution with the player in the top row (y = 0) or the
\* bottom row (y = 9) changes neither lives nor position and the loop goes on;
\* lives changes only with the player in the rows 1..8.
C19_EdgeRowsAreSafe ==
    [][/\ pc = "collide" /\ frog.y \in {0, HEIGHT - 1} => frog' = frog /\ pc' = "render"
       /\ frog'.lives # frog.lives => pc = "collide" /\ frog.y \in 1..(HEIGHT - 2)]_vars

\* A tick has ended with the player in the top row, under an obstacle of row 1.
C19_Witness ==
    /\ pc = "render"
    /\ frog.y = 0
    /\ \E i \in 1..NUM_OBSTACLES :
           obstacles[i].y = 1 /\ <<frog.x, 1>> \in Cells(obstacles[i])
====
